---- MODULE Spec2Model ----
(***************************************************************************)
(* Model of src/3d/terrain/qgsdemterraintilegeometry_p.cpp: the DEM        *)
(* terrain tile vertex/index buffer builders, the value equality of the    *)
(* two buffer functors and the brute-force ray/triangle search.            *)
(*                                                                         *)
(* A float is modelled as a pair <<n, d>>: the rational n/d in lowest      *)
(* terms with d > 0, or NaN when d = 0.  Arithmetic is exact (rounding of  *)
(* 32-bit floats and infinities are not modelled); NaN propagates through  *)
(* every operation and compares unequal to everything, itself included.    *)
(***************************************************************************)
EXTENDS Integers, Sequences, FiniteSets, TLC

\* ---------------------------------------------------------------- bounds
\* largest tile resolution explored (the code asserts res >= 2)
MaxRes == 3
\* largest number of NaN cells in the explored memory images
MaxNaN == 2
\* largest number of NaN samples in the height maps of the vertex builder
MaxVertexNaN == 1
\* largest number of triangles handed to the ray search
MaxTriangles == 3
\* largest projected distance reported by the ray/triangle oracle
MaxDistance == 1

\* ---------------------------------------------------------------- floats
NaN == <<0, 0>>

isnan(f) == f[2] = 0

Abs(n) == IF n < 0 THEN -n ELSE n

RECURSIVE Gcd(_, _)
Gcd(a, b) == IF b = 0 THEN a ELSE Gcd(b, a % b)

\* the float n/d (d # 0) in lowest terms
Float(n, d) ==
  LET g == Gcd(Abs(n), Abs(d))
      s == IF d < 0 THEN -1 ELSE 1
  IN  <<(s * n) \div g, (s * d) \div g>>

\* static_cast<float>( int )
FromInt(n) == <<n, 1>>

FAdd(a, b) == IF isnan(a) \/ isnan(b) THEN NaN
              ELSE Float(a[1] * b[2] + b[1] * a[2], a[2] * b[2])

FSub(a, b) == IF isnan(a) \/ isnan(b) THEN NaN
              ELSE Float(a[1] * b[2] - b[1] * a[2], a[2] * b[2])

FMul(a, b) == IF isnan(a) \/ isnan(b) THEN NaN
              ELSE Float(a[1] * b[1], a[2] * b[2])

\* a / b; 0/0 is NaN, x/0 for x # 0 (an infinity) is outside the model
FDiv(a, b) == IF isnan(a) \/ isnan(b) \/ b[1] = 0 THEN NaN
              ELSE Float(a[1] * b[2], a[2] * b[1])

\* operator== on two floats: NaN is unequal to everything
FloatEq(a, b) == ~isnan(a) /\ ~isnan(b) /\ a = b

\* QByteArray::operator== : the bytes are compared, so a NaN equals the
\* same NaN bit pattern
BytesEq(a, b) == a = b

qBound(lo, val, hi) == IF val < lo THEN lo ELSE IF val > hi THEN hi ELSE val

\* --------------------------------------------------------- vertex builder
\* floats per vertex: vec3 pos, vec2 texCoord, vec3 normal
elementSize == 3 + 2 + 3

nVerts(r) == (r + 2) * (r + 2)

noDataHeight == FromInt(0)

\* PlaneCoord taken from the padded coordinate instead of the clamped one
PlaneCoordExtrapolated(r, i, iBound) ==
  LET w  == FromInt(1)
      x0 == FDiv(FSub(FromInt(0), w), FromInt(2))
      dx == FDiv(w, FromInt(r - 1))
  IN  FAdd(x0, FMul(FromInt(i), dx))

\* x (or z) of a vertex whose padded coordinate is i and clamped one iBound
PlaneCoord(r, i, iBound) ==
  LET w  == FromInt(1)
      x0 == FDiv(FSub(FromInt(0), w), FromInt(2))
      dx == FDiv(w, FromInt(r - 1))
  IN  FAdd(x0, FMul(FromInt(iBound), dx))

\* u (or v) of a vertex whose clamped coordinate is iBound
TexCoord(r, i, iBound) ==
  LET du == FDiv(FromInt(1), FromInt(r - 1))
  IN  FMul(FromInt(iBound), du)

\* RawHeight that forgets to lower the padding vertices
RawHeightNoSkirt(r, skirt, zData, i, j, zb) ==
  LET iBound == qBound(0, i, r - 1)
      jBound == qBound(0, j, r - 1)
  IN  IF i = iBound /\ j = jBound
        THEN zData[zb + 1]
        ELSE zData[jBound * r + iBound + 1]

\* the height before the NaN substitution; zb is the number of samples
\* already consumed through zBits
RawHeight(r, skirt, zData, i, j, zb) ==
  LET iBound == qBound(0, i, r - 1)
      jBound == qBound(0, j, r - 1)
  IN  IF i = iBound /\ j = jBound
        THEN zData[zb + 1]
        ELSE FSub(zData[jBound * r + iBound + 1], skirt)

VertexHeight(r, skirt, zData, i, j, zb) ==
  LET height == RawHeight(r, skirt, zData, i, j, zb)
  IN  IF isnan(height) THEN noDataHeight ELSE height

\* the eight floats written for the vertex at padded coordinate (i, j)
VertexElement(r, skirt, zData, i, j, zb) ==
  LET iBound == qBound(0, i, r - 1)
      jBound == qBound(0, j, r - 1)
  IN  << PlaneCoord(r, i, iBound),
         VertexHeight(r, skirt, zData, i, j, zb),
         PlaneCoord(r, j, jBound),
         TexCoord(r, i, iBound),
         TexCoord(r, j, jBound),
         FromInt(0), FromInt(1), FromInt(0) >>

\* ---------------------------------------------------------- index builder
ijToHeightMapIndex(i, j, numVerticesX, numVerticesZ) ==
  LET ii == qBound(1, i, numVerticesX - 1) - 1
      jj == qBound(1, j, numVerticesZ - 1) - 1
  IN  jj * (numVerticesX - 2) + ii

\* the height-map indices hasNoData may read for cell (i, j), in the order
\* of its short-circuit evaluation
CornerIndices(i, j, nx, nz) ==
  << ijToHeightMapIndex(i, j, nx, nz),
     ijToHeightMapIndex(i + 1, j, nx, nz),
     ijToHeightMapIndex(i, j + 1, nx, nz),
     ijToHeightMapIndex(i + 1, j + 1, nx, nz) >>

\* hasNoData that leaves out the corner (i+1, j+1)
hasNoDataThreeCorners(i, j, mem, nx, nz) ==
  LET c == CornerIndices(i, j, nx, nz)
  IN  isnan(mem[c[1] + 1]) \/ isnan(mem[c[2] + 1]) \/ isnan(mem[c[3] + 1])

\* mem is the height map followed by the floats that lie behind it in
\* memory: mem[k + 1] is what heightMap[k] reads
hasNoData(i, j, mem, nx, nz) ==
  LET c == CornerIndices(i, j, nx, nz)
  IN  isnan(mem[c[1] + 1]) \/ isnan(mem[c[2] + 1]) \/
      isnan(mem[c[3] + 1]) \/ isnan(mem[c[4] + 1])

\* the elements hasNoData really reads: || stops at the first NaN
RECURSIVE ReadPrefix(_, _, _)
ReadPrefix(c, mem, k) ==
  IF k > Len(c) THEN {}
  ELSE IF isnan(mem[c[k] + 1]) THEN {c[k]}
  ELSE {c[k]} \cup ReadPrefix(c, mem, k + 1)

hasNoDataReads(i, j, mem, nx, nz) == ReadPrefix(CornerIndices(i, j, nx, nz), mem, 1)

\* faces counted on the grid without its padding
facesUnpadded(r) == 2 * (r - 1) * (r - 1)

\* 2 triangles per rectangular face of the padded grid
faces(r) == 2 * ((r + 2) - 1) * ((r + 2) - 1)

\* the six indices of a quad with at least one no-data corner
InvalidTriangles(rowStartIndex, nextRowStartIndex, i) ==
  << rowStartIndex + i, rowStartIndex + i, rowStartIndex + i,
     rowStartIndex + i, rowStartIndex + i, rowStartIndex + i >>

\* SplitQuad along the diagonal from (row, i) to (next row, i + 1)
SplitQuadOtherDiagonal(rowStartIndex, nextRowStartIndex, i) ==
  << rowStartIndex + i, nextRowStartIndex + i, nextRowStartIndex + i + 1,
     rowStartIndex + i, nextRowStartIndex + i + 1, rowStartIndex + i + 1 >>

\* the six indices of a valid quad
SplitQuad(rowStartIndex, nextRowStartIndex, i) ==
  << rowStartIndex + i, nextRowStartIndex + i, rowStartIndex + i + 1,
     nextRowStartIndex + i, nextRowStartIndex + i + 1, rowStartIndex + i + 1 >>

\* ------------------------------------------------------------------ state
VARIABLES
  pc,             \* which function runs, and whether it returned
  mResolution,    \* mResolution of the functor that is run
  mSkirtHeight,   \* mSkirtHeight of the functor that is run
  mem,            \* mHeightMap followed by the floats behind it in memory
  vj, vi,         \* createPlaneVertexData: loop counters j and i
  zBits,          \* createPlaneVertexData: samples consumed through zBits
  fptr,           \* createPlaneVertexData: floats written so far
  bufferBytes,    \* createPlaneVertexData: the vertex buffer
  vWrites,        \* number of writes to each slot of bufferBytes
  vOverrun,       \* offsets written past the end of bufferBytes
  ij, ii,         \* createPlaneIndexData: loop counters j and i
  indexPtr,       \* createPlaneIndexData: indices written so far
  indexBytes,     \* createPlaneIndexData: the index buffer
  iWrites,        \* number of writes to each slot of indexBytes
  iOverrun,       \* offsets written past the end of indexBytes
  heightReads,    \* height-map indices read by hasNoData so far
  noDataCells,    \* cells <<i, j>> for which hasNoData returned true
  build,          \* "debug": Q_ASSERT is compiled in; "release": it is not
  vertexCnt,      \* intersectionDemTriangles: floats in vertexBuf
  indices,        \* intersectionDemTriangles: the content of indexBuf
  oracle,         \* what the ray/triangle test answers for each triangle
  ti,             \* intersectionDemTriangles: loop counter i
  minDistance,    \* intersectionDemTriangles: minDistance
  minIntersectionPt, \* intersectionDemTriangles: minIntersectionPt
  intPt,          \* the caller's output point
  result,         \* the value returned by intersectionDemTriangles
  vertexReads,    \* offsets of the floats read from vertexBuf
  indexReads,     \* offsets of the indices read from indexBuf
  fa, fb,         \* the two functors handed to operator==
  eqResult        \* the value returned by operator==

vertexVars == << vj, vi, zBits, fptr, bufferBytes, vWrites, vOverrun >>

indexVars == << ij, ii, indexPtr, indexBytes, iWrites, iOverrun, heightReads, noDataCells >>

inputVars == << mResolution, mSkirtHeight, mem >>

rayVars == << build, vertexCnt, indices, oracle, ti, minDistance, minIntersectionPt,
             intPt, result, vertexReads, indexReads >>

eqVars == << fa, fb, eqResult >>

vars == << pc, inputVars, vertexVars, indexVars, rayVars, eqVars >>

\* content of a buffer slot after QByteArray::resize and before any write
Uninit == <<0, -1>>
UninitIndex == -1

\* mHeightMap: the first res * res floats of mem
HeightMapOf(r, m) == SubSeq(m, 1, r * r)

mHeightMap == HeightMapOf(mResolution, mem)

\* ----------------------------------------------------------------- inputs
RECURSIVE SubsetsUpTo(_, _)
SubsetsUpTo(S, k) ==
  IF k = 0 THEN {{}}
  ELSE LET P == SubsetsUpTo(S, k - 1)
       IN  P \cup {p \cup {x} : p \in P, x \in S}

\* samples 1, 2, 3, ... in row-major order
Ramp(n) == [k \in 1..n |-> FromInt(k)]
\* a flat grid of elevation 5
Flat(n) == [k \in 1..n |-> FromInt(5)]

Masked(base, nans) == [k \in DOMAIN base |-> IF k \in nans THEN NaN ELSE base[k]]

\* height maps handed to the vertex builder
HeightMaps(r) ==
  {Masked(base, nans) : base \in {Ramp(r * r), Flat(r * r)},
                        nans \in SubsetsUpTo(1..(r * r), MaxVertexNaN)}

\* the floats the index builder can reach: the height map and the res + 1
\* floats that follow it in memory, whose content is arbitrary
MemLen(r) == r * r + r + 1

MemImages(r) == {Masked(Ramp(MemLen(r)), nans) : nans \in SubsetsUpTo(1..MemLen(r), MaxNaN)}

SkirtHeights == {NaN, FromInt(2), Float(-1, 2)}

Resolutions == 2..MaxRes

\* ------------------------------------------------------------- operator()
IdleVertex ==
  /\ vj = -1 /\ vi = -1 /\ zBits = 0 /\ fptr = 0
  /\ bufferBytes = << >> /\ vWrites = << >> /\ vOverrun = {}

IdleIndex ==
  /\ ij = 0 /\ ii = 0 /\ indexPtr = 0
  /\ indexBytes = << >> /\ iWrites = << >> /\ iOverrun = {}
  /\ heightReads = {} /\ noDataCells = {}

\* points: the caller's initial output point, a default-constructed
\* QVector3D, and the points the ray can hit
CallerPoint == "caller"
NullPoint == "null"
HitPoints == {"p", "q"}

NoFunctor == [kind |-> "none", mResolution |-> 0, mSkirtHeight |-> FromInt(0),
              mHeightMap |-> << >>]

IdleRay ==
  /\ build = "release" /\ vertexCnt = 0 /\ indices = << >> /\ oracle = << >>
  /\ ti = 0 /\ minDistance = FromInt(-1) /\ minIntersectionPt = NullPoint
  /\ intPt = CallerPoint /\ result = FALSE /\ vertexReads = {} /\ indexReads = {}

IdleEq == fa = NoFunctor /\ fb = NoFunctor /\ eqResult = FALSE

IdleInputs == mResolution = 2 /\ mSkirtHeight = FromInt(0) /\ mem = << >>

\* PlaneVertexBufferFunctor::operator() enters createPlaneVertexData, which
\* sizes its buffer
InitVertex ==
  /\ pc = "vertex"
  /\ mResolution \in Resolutions
  /\ mSkirtHeight \in SkirtHeights
  /\ mem \in HeightMaps(mResolution)
  /\ vj = -1 /\ vi = -1 /\ zBits = 0 /\ fptr = 0
  /\ bufferBytes = [k \in 1..(elementSize * nVerts(mResolution)) |-> Uninit]
  /\ vWrites = [k \in 1..(elementSize * nVerts(mResolution)) |-> 0]
  /\ vOverrun = {}
  /\ IdleIndex /\ IdleRay /\ IdleEq

\* PlaneIndexBufferFunctor::operator() enters createPlaneIndexData, which
\* sizes its buffer
InitIndex ==
  /\ pc = "index"
  /\ mResolution \in Resolutions
  /\ mSkirtHeight = FromInt(0)
  /\ mem \in MemImages(mResolution)
  /\ IdleVertex
  /\ ij = 0 /\ ii = 0 /\ indexPtr = 0
  /\ indexBytes = [k \in 1..(3 * faces(mResolution)) |-> UninitIndex]
  /\ iWrites = [k \in 1..(3 * faces(mResolution)) |-> 0]
  /\ iOverrun = {}
  /\ heightReads = {}
  /\ noDataCells = {}
  /\ IdleRay /\ IdleEq

Init == InitVertex \/ InitIndex

\* buf with the elements of elems written from offset ptr on
WriteAt(buf, ptr, elems) ==
  [k \in DOMAIN buf |->
     IF k > ptr /\ k <= ptr + Len(elems) THEN elems[k - ptr] ELSE buf[k]]

CountAt(cnt, ptr, n) ==
  [k \in DOMAIN cnt |-> IF k > ptr /\ k <= ptr + n THEN cnt[k] + 1 ELSE cnt[k]]

PastEnd(buf, ptr, n) == {k \in ptr..(ptr + n - 1) : k >= Len(buf)}

\* one pass of the inner loop of createPlaneVertexData
VertexStep ==
  /\ pc = "vertex"
  /\ vj <= mResolution
  /\ LET elem == VertexElement(mResolution, mSkirtHeight, mHeightMap, vi, vj, zBits)
         interior == /\ vi = qBound(0, vi, mResolution - 1)
                     /\ vj = qBound(0, vj, mResolution - 1)
     IN  /\ bufferBytes' = WriteAt(bufferBytes, fptr, elem)
         /\ vWrites' = CountAt(vWrites, fptr, elementSize)
         /\ vOverrun' = vOverrun \cup PastEnd(bufferBytes, fptr, elementSize)
         /\ fptr' = fptr + elementSize
         /\ zBits' = IF interior THEN zBits + 1 ELSE zBits
  /\ IF vi < mResolution
       THEN vi' = vi + 1 /\ vj' = vj
       ELSE vi' = -1 /\ vj' = vj + 1
  /\ UNCHANGED << pc, inputVars, indexVars, rayVars, eqVars >>

\* createPlaneVertexData leaves its loops and returns bufferBytes
VertexReturn ==
  /\ pc = "vertex"
  /\ vj > mResolution
  /\ pc' = "vertexReturned"
  /\ UNCHANGED << inputVars, vertexVars, indexVars, rayVars, eqVars >>

\* one pass of the inner loop of createPlaneIndexData
IndexStep ==
  /\ pc = "index"
  /\ LET numVerticesX == mResolution + 2
         numVerticesZ == mResolution + 2
         rowStartIndex == ij * numVerticesX
         nextRowStartIndex == (ij + 1) * numVerticesX
         noData == hasNoData(ii, ij, mem, numVerticesX, numVerticesZ)
         tris == IF noData THEN InvalidTriangles(rowStartIndex, nextRowStartIndex, ii)
                           ELSE SplitQuad(rowStartIndex, nextRowStartIndex, ii)
     IN  /\ ij < numVerticesZ - 1
         /\ heightReads' = heightReads \cup
                             hasNoDataReads(ii, ij, mem, numVerticesX, numVerticesZ)
         /\ noDataCells' = IF noData THEN noDataCells \cup {<<ii, ij>>} ELSE noDataCells
         /\ indexBytes' = WriteAt(indexBytes, indexPtr, tris)
         /\ iWrites' = CountAt(iWrites, indexPtr, 6)
         /\ iOverrun' = iOverrun \cup PastEnd(indexBytes, indexPtr, 6)
         /\ indexPtr' = indexPtr + 6
         /\ IF ii + 1 < numVerticesX - 1
              THEN ii' = ii + 1 /\ ij' = ij
              ELSE ii' = 0 /\ ij' = ij + 1
  /\ UNCHANGED << pc, inputVars, vertexVars, rayVars, eqVars >>

\* createPlaneIndexData leaves its loops and returns indexBytes
IndexReturn ==
  /\ pc = "index"
  /\ ij >= (mResolution + 2) - 1
  /\ pc' = "indexReturned"
  /\ UNCHANGED << inputVars, vertexVars, indexVars, rayVars, eqVars >>

Next == VertexStep \/ VertexReturn \/ IndexStep \/ IndexReturn

Spec == Init /\ [][Next]_vars

\* ------------------------------------------------- properties: the builders
\* padded-grid vertex number of padded coordinate (i, j), i and j in -1..res
VertexNumber(r, i, j) == (j + 1) * (r + 2) + (i + 1)

\* the vertices createPlaneVertexData has emitted so far
EmittedVertices ==
  {c \in (-1..mResolution) \X (-1..mResolution) :
     elementSize * VertexNumber(mResolution, c[1], c[2]) < fptr}

\* the vertices of the buffer createPlaneVertexData has returned
ReturnedVertices == IF pc = "vertexReturned" THEN EmittedVertices ELSE {}

\* float k (1..8) of the emitted vertex at padded coordinate c
VertexField(c, k) == bufferBytes[elementSize * VertexNumber(mResolution, c[1], c[2]) + k]

\* the cells createPlaneIndexData has emitted so far
EmittedCells ==
  {c \in (0..mResolution) \X (0..mResolution) :
     6 * (c[2] * (mResolution + 1) + c[1]) < indexPtr}

\* the cells of the buffer createPlaneIndexData has returned
ReturnedCells == IF pc = "indexReturned" THEN EmittedCells ELSE {}

\* index k (1..6) emitted for cell c
CellIndex(c, k) == indexBytes[6 * (c[2] * (mResolution + 1) + c[1]) + k]

\* the interior coordinate nearest to padded corner coordinate p
Nearest(r, p) == qBound(0, p - 1, r - 1)

\* the interior samples nearest to the four corners of cell c
NearestSamples(c) ==
  {mHeightMap[Nearest(mResolution, q) * mResolution + Nearest(mResolution, p) + 1] :
     p \in {c[1], c[1] + 1}, q \in {c[2], c[2] + 1}}

NearestHasNaN(c) == \E f \in NearestSamples(c) : isnan(f)

Degenerate(c) ==
  \A k \in 1..6 : CellIndex(c, k) = c[2] * (mResolution + 2) + c[1]

\* C1: the vertex builder returns (res+2)^2 * 8 floats and the index builder
\* 2 * (res+1)^2 * 3 unsigned 32-bit indices, whatever the NaN pattern, and
\* each builder writes every slot of its buffer exactly once and none past
\* the end.
C1_BufferSizes ==
  /\ vOverrun = {} /\ iOverrun = {}
  /\ pc = "vertexReturned" =>
       /\ Len(bufferBytes) = (mResolution + 2) * (mResolution + 2) * 8
       /\ \A k \in 1..Len(bufferBytes) : vWrites[k] = 1
  /\ pc = "indexReturned" =>
       /\ Len(indexBytes) = 2 * (mResolution + 1) * (mResolution + 1) * 3
       /\ \A k \in 1..Len(indexBytes) :
            iWrites[k] = 1 /\ indexBytes[k] >= 0 /\ indexBytes[k] <= 2147483647

C1_Witness ==
  /\ pc = "indexReturned"
  /\ mResolution = MaxRes
  /\ \E k \in 1..Len(mHeightMap) : isnan(mHeightMap[k])
  /\ noDataCells # {}
  /\ noDataCells # (0..mResolution) \X (0..mResolution)

\* C2: a cell with a NaN among the interior samples nearest to its four
\* corners is emitted as two degenerate triangles: all six indices are the
\* vertex index j*(res+2)+i.
C2_NaNCellDegenerate ==
  \A c \in ReturnedCells : NearestHasNaN(c) => Degenerate(c)

C2_Witness ==
  /\ pc = "indexReturned"
  /\ \E c \in EmittedCells :
       /\ NearestHasNaN(c)
       /\ c[1] = mResolution
       /\ ~isnan(mHeightMap[Nearest(mResolution, c[2]) * mResolution + mResolution])

\* C8 (as claimed): a cell whose nearest interior samples are all valid gets
\* two triangles with three pairwise distinct indices each, whatever the
\* other samples of the grid are.
C8_ValidCellNotDegenerate ==
  \A c \in ReturnedCells :
    ~NearestHasNaN(c) =>
      /\ Cardinality({CellIndex(c, 1), CellIndex(c, 2), CellIndex(c, 3)}) = 3
      /\ Cardinality({CellIndex(c, 4), CellIndex(c, 5), CellIndex(c, 6)}) = 3

\* C10 (as claimed): every height-map element read through hasNoData has an
\* index in 0 .. res*res - 1.
C10_HeightReadsInBounds ==
  \A k \in heightReads : 0 <= k /\ k <= mResolution * mResolution - 1

\* the four corner vertices of cell c
TopLeft(c) == c[2] * (mResolution + 2) + c[1]
TopRight(c) == c[2] * (mResolution + 2) + c[1] + 1
BottomLeft(c) == (c[2] + 1) * (mResolution + 2) + c[1]
BottomRight(c) == (c[2] + 1) * (mResolution + 2) + c[1] + 1

Corners(c) == {TopLeft(c), TopRight(c), BottomLeft(c), BottomRight(c)}

FirstTriangle(c) == {CellIndex(c, 1), CellIndex(c, 2), CellIndex(c, 3)}
SecondTriangle(c) == {CellIndex(c, 4), CellIndex(c, 5), CellIndex(c, 6)}

\* twice the signed area of the triangle whose indices start at slot k + 1
\* of cell c, with vertex v placed at column v % (res+2), row v \div (res+2)
Winding(c, k) ==
  LET n  == mResolution + 2
      a  == CellIndex(c, k + 1)
      b  == CellIndex(c, k + 2)
      d  == CellIndex(c, k + 3)
      ux == (b % n) - (a % n)
      uy == (b \div n) - (a \div n)
      wx == (d % n) - (a % n)
      wy == (d \div n) - (a \div n)
  IN  ux * wy - uy * wx

\* the returned cells for which hasNoData answered false
ValidCells == {c \in ReturnedCells : c \notin noDataCells}

\* what C9 says of a cell apart from the choice of the diagonal
QuadCovered(c) ==
  /\ \A k \in 1..6 : CellIndex(c, k) \in Corners(c)
  /\ \A k \in 1..6 : CellIndex(c, k) < (mResolution + 2) * (mResolution + 2)
  /\ FirstTriangle(c) \cup SecondTriangle(c) = Corners(c)
  /\ Cardinality(Corners(c)) = 4

SameWinding ==
  \/ \A c \in ValidCells : Winding(c, 0) > 0 /\ Winding(c, 3) > 0
  \/ \A c \in ValidCells : Winding(c, 0) < 0 /\ Winding(c, 3) < 0

\* C9 (as claimed): the two triangles of a cell that is not a no-data cell
\* use only its four corners, cover them all, share exactly the diagonal
\* from the top-left to the bottom-right corner and are wound alike.
C9_DiagonalTopLeftBottomRight ==
  /\ \A c \in ValidCells :
       /\ QuadCovered(c)
       /\ FirstTriangle(c) \cap SecondTriangle(c) = {TopLeft(c), BottomRight(c)}
  /\ SameWinding

\* C9 (amended): as above, but the shared edge is the diagonal from the
\* bottom-left corner (row j+1, column i) to the top-right corner (row j,
\* column i+1).
C9_DiagonalBottomLeftTopRight ==
  /\ \A c \in ValidCells :
       /\ QuadCovered(c)
       /\ FirstTriangle(c) \cap SecondTriangle(c) = {BottomLeft(c), TopRight(c)}
  /\ SameWinding

C9_Witness ==
  /\ pc = "indexReturned"
  /\ Cardinality(ValidCells) >= 2
  /\ noDataCells # {}

\* one grid step d = 1/(res-1) times k, and -0.5 + k*d, as exact fractions
Steps(r, k) == Float(k, r - 1)
HalfPlusSteps(r, k) == Float(2 * k - (r - 1), 2 * (r - 1))

Clamped(r, p) == qBound(0, p, r - 1)

IsInterior(r, c) == c[1] = Clamped(r, c[1]) /\ c[2] = Clamped(r, c[2])

\* C6 (as claimed): x, z, u and v of every vertex, padding included, follow
\* the padded coordinate: x = -0.5 + i*d and u = i*d for i in -1..res, so
\* that padding vertices lie one grid step outside the interior extent.
C6_PaddingExtrapolated ==
  \A c \in ReturnedVertices :
    /\ VertexField(c, 1) = HalfPlusSteps(mResolution, c[1])
    /\ VertexField(c, 3) = HalfPlusSteps(mResolution, c[2])
    /\ VertexField(c, 4) = Steps(mResolution, c[1])
    /\ VertexField(c, 5) = Steps(mResolution, c[2])

\* C6 (amended): x, z, u and v follow the clamped coordinate: a padding
\* vertex repeats the coordinates of the nearest interior vertex (x = -0.5
\* and u = 0 for i = -1, x = 0.5 and u = 1 for i = res), interior vertices
\* get x = -0.5 + i*d, z = -0.5 + j*d, u = i*d, v = j*d.
C6_PaddingClamped ==
  \A c \in ReturnedVertices :
    /\ VertexField(c, 1) = HalfPlusSteps(mResolution, Clamped(mResolution, c[1]))
    /\ VertexField(c, 3) = HalfPlusSteps(mResolution, Clamped(mResolution, c[2]))
    /\ VertexField(c, 4) = Steps(mResolution, Clamped(mResolution, c[1]))
    /\ VertexField(c, 5) = Steps(mResolution, Clamped(mResolution, c[2]))
    /\ c[1] = -1 => VertexField(c, 1) = Float(-1, 2) /\ VertexField(c, 4) = FromInt(0)
    /\ c[1] = mResolution => VertexField(c, 1) = Float(1, 2) /\ VertexField(c, 4) = FromInt(1)
    /\ c[2] = -1 => VertexField(c, 3) = Float(-1, 2) /\ VertexField(c, 5) = FromInt(0)
    /\ c[2] = mResolution => VertexField(c, 3) = Float(1, 2) /\ VertexField(c, 5) = FromInt(1)

C6_Witness ==
  /\ pc = "vertexReturned"
  /\ mResolution = MaxRes
  /\ VertexField(<<-1, 1>>, 1) = Float(-1, 2)
  /\ VertexField(<<1, mResolution>>, 3) = Float(1, 2)

\* the sample of the interior vertex nearest to padded coordinate c
ClampedSample(c) ==
  mHeightMap[Clamped(mResolution, c[2]) * mResolution + Clamped(mResolution, c[1]) + 1]

\* the height C7 expects at padded coordinate c
ExpectedHeight(c) ==
  LET raw == IF IsInterior(mResolution, c) THEN ClampedSample(c)
             ELSE FSub(ClampedSample(c), mSkirtHeight)
  IN  IF isnan(raw) THEN FromInt(0) ELSE raw

IsFlat(h) == ~isnan(h) /\ \A k \in 1..Len(mHeightMap) : mHeightMap[k] = h

\* C7: an interior vertex gets heights[j*res + i], the samples being consumed
\* one per interior vertex in visiting order and res*res of them in all; a
\* padding vertex gets the clamped sample minus skirtHeight; a NaN result
\* becomes 0 and no emitted height is NaN; on a flat grid of elevation h the
\* interior heights are h and the padding heights h - skirtHeight.
C7_VertexHeights ==
  /\ \A c \in ReturnedVertices :
       /\ VertexField(c, 2) = ExpectedHeight(c)
       /\ ~isnan(VertexField(c, 2))
  /\ pc \in {"vertex", "vertexReturned"} =>
       zBits = Cardinality({c \in EmittedVertices : IsInterior(mResolution, c)})
  /\ pc = "vertexReturned" => zBits = mResolution * mResolution
  /\ pc = "vertexReturned" =>
       LET h == mHeightMap[1]
       IN  IsFlat(h) /\ ~isnan(mSkirtHeight) =>
             \A c \in ReturnedVertices :
               VertexField(c, 2) = IF IsInterior(mResolution, c) THEN h
                                   ELSE FSub(h, mSkirtHeight)

C7_Witness ==
  /\ pc = "vertexReturned"
  /\ mResolution = MaxRes
  /\ ~isnan(mSkirtHeight)
  /\ isnan(mHeightMap[mResolution + 1])
  /\ VertexField(<<0, 1>>, 2) = FromInt(0)
  /\ VertexField(<<mResolution, 0>>, 2) = FSub(FromInt(mResolution), mSkirtHeight)

\* ------------------------------------------------ intersectionDemTriangles
\* a < b on floats; false when either is NaN
FLess(a, b) == ~isnan(a) /\ ~isnan(b) /\ a[1] * b[2] < b[1] * a[2]

\* what the ray/triangle test and the ray's projection yield for one
\* triangle: a miss, or a hit point with its projected distance
Miss == [hit |-> FALSE, pt |-> NullPoint, dist |-> FromInt(0)]

Hits(points, maxDist) ==
  [hit : {TRUE}, pt : points, dist : {FromInt(d) : d \in 0..maxDist}]

\* IsCloser that also replaces the closest hit on equal distance
IsCloserOrEqual(distance, minDist) ==
  FloatEq(minDist, FromInt(-1)) \/ FLess(distance, minDist) \/ FloatEq(distance, minDist)

\* is a hit at this distance kept as the closest one so far
IsCloser(distance, minDist) ==
  FloatEq(minDist, FromInt(-1)) \/ FLess(distance, minDist)

indexCnt == Len(indices)
triangleCount == indexCnt \div 3

AssertionsHold == vertexCnt % 8 = 0 /\ indexCnt % 3 = 0

\* buffers as the mesh builder lays them out, and every answer of the oracle
InitRayWellFormed ==
  /\ vertexCnt = 2 * elementSize
  /\ \E n \in 0..MaxTriangles :
       /\ indices = [k \in 1..(3 * n) |-> (k - 1) % 2]
       /\ oracle \in [1..n -> {Miss} \cup Hits(HitPoints, MaxDistance)]

\* buffers of any size and content
InitRayAnyBuffers ==
  /\ vertexCnt \in {8, 12, 16}
  /\ \E n \in 0..4 :
       /\ indices \in [1..n -> 0..2]
       /\ oracle \in [1..(n \div 3) -> {Miss} \cup Hits({"p"}, 0)]

InitRay ==
  /\ pc = "ray"
  /\ build \in {"debug", "release"}
  /\ InitRayWellFormed \/ InitRayAnyBuffers
  /\ ti = 0
  /\ minDistance = FromInt(-1)
  /\ minIntersectionPt = NullPoint
  /\ intPt = CallerPoint
  /\ result = FALSE
  /\ vertexReads = {}
  /\ indexReads = {}
  /\ IdleInputs /\ IdleVertex /\ IdleIndex /\ IdleEq

\* a Q_ASSERT on the buffer sizes fails and ends the program
RayAbort ==
  /\ pc = "ray"
  /\ build = "debug"
  /\ ~AssertionsHold
  /\ pc' = "aborted"
  /\ UNCHANGED << inputVars, vertexVars, indexVars, rayVars, eqVars >>

\* one pass of the loop over the triangles
RayStep ==
  /\ pc = "ray"
  /\ build = "debug" => AssertionsHold
  /\ ti < triangleCount
  /\ LET v0 == indices[ti * 3 + 1]
         v1 == indices[ti * 3 + 2]
         v2 == indices[ti * 3 + 3]
         answer == oracle[ti + 1]
     IN  /\ indexReads' = indexReads \cup {ti * 3, ti * 3 + 1, ti * 3 + 2}
         /\ vertexReads' = vertexReads \cup
                             {v * 8 + k : v \in {v0, v1, v2}, k \in 0..2}
         /\ IF answer.hit /\ IsCloser(answer.dist, minDistance)
              THEN minDistance' = answer.dist /\ minIntersectionPt' = answer.pt
              ELSE UNCHANGED << minDistance, minIntersectionPt >>
  /\ ti' = ti + 1
  /\ UNCHANGED << pc, inputVars, vertexVars, indexVars, eqVars, build, vertexCnt,
                  indices, oracle, intPt, result >>

\* the loop is over: report the closest hit, if any
RayReturn ==
  /\ pc = "ray"
  /\ build = "debug" => AssertionsHold
  /\ ti >= triangleCount
  /\ IF ~FloatEq(minDistance, FromInt(-1))
       THEN intPt' = minIntersectionPt /\ result' = TRUE
       ELSE intPt' = intPt /\ result' = FALSE
  /\ pc' = "rayReturned"
  /\ UNCHANGED << inputVars, vertexVars, indexVars, eqVars, build, vertexCnt, indices,
                  oracle, ti, minDistance, minIntersectionPt, vertexReads, indexReads >>

NextRay == RayAbort \/ RayStep \/ RayReturn

SpecRay == InitRay /\ [][NextRay]_vars

\* the triangles the oracle reports as hit
HitTriangles == {k \in 1..Len(oracle) : oracle[k].hit}

\* the first triangle, in index-buffer order, whose distance no hit beats
ClosestTriangle ==
  CHOOSE k \in HitTriangles :
    /\ \A m \in HitTriangles : ~FLess(oracle[m].dist, oracle[k].dist)
    /\ \A m \in HitTriangles : m < k => FLess(oracle[k].dist, oracle[m].dist)

\* C3: intersectionDemTriangles returns true exactly when a triangle is
\* hit; the point it reports is then the hit point of the first triangle at
\* the least projected distance; otherwise the output point is untouched.
C3_ClosestHit ==
  pc = "rayReturned" =>
    /\ result <=> HitTriangles # {}
    /\ result => intPt = oracle[ClosestTriangle].pt
    /\ ~result => intPt = CallerPoint

C3_Witness ==
  /\ pc = "rayReturned"
  /\ result
  /\ \E k \in HitTriangles, m \in HitTriangles :
       /\ k < m /\ k = ClosestTriangle
       /\ oracle[k].dist = oracle[m].dist /\ oracle[k].pt # oracle[m].pt
  /\ \E k \in HitTriangles : k < ClosestTriangle

Malformed ==
  \/ vertexCnt % 8 # 0
  \/ indexCnt % 3 # 0
  \/ \E k \in 1..indexCnt : indices[k] >= vertexCnt \div 8

\* C5 (as claimed): with malformed buffers the search reports no
\* intersection or signals invalid input, and reads no element outside the
\* buffers.
C5_MalformedRejected ==
  (pc \in {"ray", "rayReturned", "aborted"} /\ Malformed) =>
    /\ pc = "rayReturned" => ~result /\ intPt = CallerPoint
    /\ \A k \in vertexReads : 0 <= k /\ k < vertexCnt
    /\ \A k \in indexReads : 0 <= k /\ k < indexCnt

\* ---------------------------------------------------------- operator ==
VertexFunctors(r) ==
  [kind : {"vertex"}, mResolution : {r}, mSkirtHeight : SkirtHeights,
   mHeightMap : {Ramp(r * r), Flat(r * r), Masked(Ramp(r * r), {1})}]

IndexFunctors(r) ==
  [kind : {"index"}, mResolution : {r}, mSkirtHeight : {FromInt(0)},
   mHeightMap : {Ramp(r * r), Flat(r * r), Masked(Ramp(r * r), {1})}]

Functors == UNION {VertexFunctors(r) \cup IndexFunctors(r) : r \in Resolutions}

InitEq ==
  /\ pc = "eq"
  /\ fa \in Functors
  /\ fb \in Functors
  /\ eqResult = FALSE
  /\ IdleInputs /\ IdleVertex /\ IdleIndex /\ IdleRay

\* PlaneVertexBufferFunctor::operator==( other ), this being fa
VertexFunctorEquals ==
  /\ pc = "eq"
  /\ fa.kind = "vertex"
  /\ eqResult' = IF fb.kind = "vertex"
                   THEN /\ fb.mResolution = fa.mResolution
                        /\ FloatEq(fb.mSkirtHeight, fa.mSkirtHeight)
                        /\ BytesEq(fb.mHeightMap, fa.mHeightMap)
                   ELSE FALSE
  /\ pc' = "compared"
  /\ UNCHANGED << inputVars, vertexVars, indexVars, rayVars, fa, fb >>

\* PlaneIndexBufferFunctor::operator==( other ), this being fa
IndexFunctorEquals ==
  /\ pc = "eq"
  /\ fa.kind = "index"
  /\ eqResult' = IF fb.kind = "index"
                   THEN fb.mResolution = fa.mResolution
                   ELSE FALSE
  /\ pc' = "compared"
  /\ UNCHANGED << inputVars, vertexVars, indexVars, rayVars, fa, fb >>

NextEq == VertexFunctorEquals \/ IndexFunctorEquals

SpecEq == InitEq /\ [][NextEq]_vars

\* C4 (as claimed): two vertex functors compare equal exactly when their
\* resolution, skirt height and height samples are equal, and two index
\* functors exactly when their resolution and height samples are equal.
C4_EqualityByValue ==
  pc = "compared" =>
    /\ (fa.kind = "vertex" /\ fb.kind = "vertex") =>
         (eqResult <=> /\ fa.mResolution = fb.mResolution
                       /\ FloatEq(fa.mSkirtHeight, fb.mSkirtHeight)
                       /\ fa.mHeightMap = fb.mHeightMap)
    /\ (fa.kind = "index" /\ fb.kind = "index") =>
         (eqResult <=> /\ fa.mResolution = fb.mResolution
                       /\ fa.mHeightMap = fb.mHeightMap)

====
